---- MODULE Spec2Model ----
(***************************************************************************)
(* Model of the HHeuristics Daily Insights worker (src/src/index.ts).      *)
(*                                                                         *)
(* The worker has two entry points, fetch (HTTP) and scheduled (cron).     *)
(* Every invocation is an independent task of the host; the tasks share    *)
(* nothing but the KV namespace ARTICLES.  Each `await` of the source is a *)
(* point where other tasks may run, so one action of the model is the code *)
(* a task runs from one await to the next.                                 *)
(***************************************************************************)
EXTENDS Integers, Sequences, FiniteSets, TLC

\* ------------------------------------------------------------------ bounds
MaxTasks == 2
MaxDay == 1
TicksPerDay == 1
\* the days a store drawn for the read paths may hold articles of
MaxStored == 7
\* the days and the instants of a day the clock runs through for the topics
MaxTopicDay == 16
\* the last day of the clock that starts on the day after a first article
MaxHealDay == 2
MaxLines == 3
TopicTicksPerDay == 2

\* --------------------------------------------------------------- constants
MsPerDay == 24 * 60 * 60 * 1000

TOPIC_BUCKETS ==
  << "emerging technologies and their strategic implications for executives",
     "cloud infrastructure, cost optimization, and FinOps best practices",
     "financial technology disruption and embedded finance models",
     "energy transition, grid modernization, and decarbonization pathways",
     "industrial automation, robotics, and supply chain resilience",
     "AI and analytics in enterprise decision-making and business intelligence",
     "global regulatory shifts impacting technology and financial services",
     "consumer spending trends and macroeconomic signals" >>

Tasks == 1..MaxTasks

\* ------------------------------------------------------------------- dates
\* Math.floor(date.getTime() / (24 * 60 * 60 * 1000))
DayIndex(ms) == ms \div MsPerDay

TwoDigits(n) ==
  LET d == <<"0", "1", "2", "3", "4", "5", "6", "7", "8", "9">>
  IN  d[(n \div 10) + 1] \o d[(n % 10) + 1]

\* now.toISOString().slice(0, 10), for the days of January 1970 the clock of
\* the model runs through.
ISODate(ms) == "1970-01-" \o TwoDigits(DayIndex(ms) + 1)

ArticleKey(date) == "article:" \o date

\* pickTopicForToday with the index taken modulo one less than the length
pickTopicForToday_ShortCycle(ms) ==
  LET dayIndex == DayIndex(ms)
      idx == dayIndex % (Len(TOPIC_BUCKETS) - 1)
  IN  TOPIC_BUCKETS[idx + 1]

pickTopicForToday(ms) ==
  LET dayIndex == DayIndex(ms)
      idx == dayIndex % Len(TOPIC_BUCKETS)
  IN  TOPIC_BUCKETS[idx + 1]

\* ------------------------------------------------------------------- text
\* A text is a sequence of lines (the string is the lines joined by "\n");
\* a line is an element: tag "" is a plain line, otherwise <tag>text</tag>.
Line(tag, text) == [tag |-> tag, text |-> text]
BlankLine == Line("", "")
EmptyText == <<BlankLine>>

IsBlank(l) == l.tag = "" /\ l.text = ""

\* html.replace(/<\/?(ul|ol|li)[^>]*>/gi, ""): the list tags go, their text
\* stays as a plain line.  The texts of Responses hold no "*" and no bullet
\* glyph, so the two other replacements (lines 403-404) leave them as they are.
sanitizeGeneratedHtml(html) ==
  [i \in 1..Len(html) |->
     IF html[i].tag \in {"ul", "ol", "li"} THEN Line("", html[i].text) ELSE html[i]]

RECURSIVE FirstNonBlank(_, _)
FirstNonBlank(html, i) ==
  IF i > Len(html) THEN 0
  ELSE IF ~IsBlank(html[i]) THEN i
  ELSE FirstNonBlank(html, i + 1)

RECURSIVE RestFrom(_, _)
\* The lines from index i on, with the blank lines at the front dropped; the
\* empty string when nothing is left.
RestFrom(html, i) ==
  IF i > Len(html) THEN EmptyText
  ELSE IF IsBlank(html[i]) /\ i < Len(html) THEN RestFrom(html, i + 1)
  ELSE SubSeq(html, i, Len(html))

RECURSIVE FirstHeading(_, _, _)
\* the first <h1> or <h2> element whose text is the title (the texts of the
\* model are in one case, so the "i" flag of the pattern changes nothing)
FirstHeading(html, title, i) ==
  IF i > Len(html) THEN 0
  ELSE IF html[i].tag \in {"h1", "h2"} /\ html[i].text = title THEN i
  ELSE FirstHeading(html, title, i + 1)

removeTitleFromBody(html, title) ==
  IF title = "" THEN html
  ELSE
    LET h == FirstHeading(html, title, 1)
        \* the first matching heading anywhere is replaced by ""; its line
        \* break stays
        cleaned == IF h = 0 THEN html
                   ELSE [i \in 1..Len(html) |-> IF i = h THEN BlankLine ELSE html[i]]
        f == FirstNonBlank(cleaned, 1)
    IN  \* ^\s*title\s*(\n|$): leading white space, the title as a plain
        \* line, and the white space after it up to the last line break
        IF f # 0 /\ cleaned[f].tag = "" /\ cleaned[f].text = title
        THEN RestFrom(cleaned, f + 1)
        ELSE cleaned

\* cleanedBody.split("\n").find((l) => l.trim().length > 0) ?? "Daily Insight"
\* followed by firstLine.replace(/<[^>]*>/g, "").trim()
TitleOf(cleanedBody) ==
  LET f == FirstNonBlank(cleanedBody, 1)
  IN  IF f = 0 THEN "Daily Insight" ELSE cleanedBody[f].text

\* title || `Daily Insight – ${today}`
TitleOrDefault(title, today) ==
  IF title # "" THEN title ELSE "Daily Insight - " \o today

\* The texts the model may answer with (response.response): a headed
\* article, an article opening with a plain title line, an opening element
\* without text, and no text at all.
Responses ==
  { << Line("h2", "Alpha"), Line("p", "one") >>,
    << Line("", "Beta"), Line("li", "two") >>,
    << Line("p", ""), Line("p", "three") >>,
    EmptyText }

\* The StoredArticle generateDailyArticle builds from the model's answer.
BuildArticle(ms, raw) ==
  LET today == ISODate(ms)
      cleanedBody == sanitizeGeneratedHtml(raw)
      title == TitleOf(cleanedBody)
  IN  [ key |-> ArticleKey(today),
        title |-> TitleOrDefault(title, today),
        bodyHtml |-> removeTitleFromBody(cleanedBody, TitleOrDefault(title, today)),
        date |-> today,
        topic |-> pickTopicForToday(ms) ]

NoArticle == [key |-> "", title |-> "", bodyHtml |-> EmptyText, date |-> "", topic |-> ""]

\* JSON.stringify(article) and the "json" read of it
JSONstringify(a) == [json |-> a]
JSONparse(s) == s.json

\* ------------------------------------------------------------------- state
VARIABLES
  now,          \* the host's clock, in milliseconds since the epoch
  kv,           \* the KV namespace ARTICLES: a function from the keys set to their values
  tasks,        \* the invocations of fetch and scheduled, by task
  aiCalls,      \* history: env.AI.run calls made, by article key
  puts,         \* history: env.ARTICLES.put calls made, by key
  lastCreated,  \* history: the key of the latest article record put
  interleaved   \* history: an article was put while another task was between its two puts

vars == <<now, kv, tasks, aiCalls, puts, lastCreated, interleaved>>

Days == 0..MaxDay
Dates == {ISODate(d * MsPerDay) : d \in Days}
LATEST == "latest-key"
ArticleKeys == {ArticleKey(d) : d \in Dates}
\* The dates a client asks for: every day of the model and one never generated.
RequestDates == Dates \cup {"2099-01-01"}

StoredDays == 0..(MaxStored - 1)
AllDays == Days \cup StoredDays

\* The day of a date of the model; the lexical order of the fixed-width ISO
\* dates is the order of their days.
DayOf(date) == CHOOSE d \in AllDays : ISODate(d * MsPerDay) = date
DateLess(a, b) == DayOf(a) < DayOf(b)

\* request paths: head is the part fetch tests, tail the rest of the path
Path(head, tail) == [head |-> head, tail |-> tail]
Paths ==
  {Path("/", ""), Path("/", "about"), Path("/archive", "")}
    \cup {Path("/article/", d) : d \in RequestDates}

\* env.ARTICLES.get(key) of a plain value: null is read as ""
Has(key) == key \in DOMAIN kv
KvGet(key) == IF Has(key) THEN kv[key] ELSE ""
KvPut(key, value) ==
  [k \in DOMAIN kv \cup {key} |-> IF k = key THEN value ELSE kv[k]]

\* list({ prefix: "article:" }): every key but latest-key
StoredKeys == DOMAIN kv \ {LATEST}
AnyArticle == StoredKeys # {}

IdleTask ==
  [ kind |-> "idle", path |-> Path("", ""), ARTICLES |-> FALSE, AI |-> FALSE,
    pc |-> "start", outcome |-> "idle",
    now |-> 0, article |-> NoArticle,
    \* the answer of the model the article was built from (line 363)
    raw |-> EmptyText,
    latestKey |-> "", key |-> "", stored |-> NoArticle,
    limit |-> 0, listKeys |-> <<>>, items |-> <<>>,
    status |-> 0, recent |-> <<>>,
    \* the body renderArticleByKey puts on the page (line 118)
    bodyHtml |-> EmptyText,
    \* the handler the host called (fetch, scheduled) has returned
    handlerReturned |-> FALSE,
    \* history of the invocation
    generated |-> 0, sawAtEntry |-> FALSE, kvReads |-> 0, kvWrites |-> 0,
    aiRuns |-> 0, latestReads |-> 0, articleAtResponse |-> FALSE ]

Init ==
  /\ now = 0
  /\ kv = [k \in {} |-> ""]
  /\ tasks = [t \in Tasks |-> IdleTask]
  /\ aiCalls = [k \in ArticleKeys |-> 0]
  /\ puts = [k \in ArticleKeys \cup {LATEST} |-> 0]
  /\ lastCreated = ""
  /\ interleaved = FALSE

Running(tk) == tk.outcome = "running"
GenKey(tk) == ArticleKey(ISODate(tk.now))

\* ------------------------------------------------------ pieces of the code
\* new Response(..., { status }): the task is over
Respond(tk, status) ==
  [tk EXCEPT !.pc = "done", !.outcome = "returned", !.status = status,
             !.handlerReturned = TRUE,
             !.articleAtResponse = AnyArticle]

\* `return` of generateDailyArticle: to renderLatestArticle (line 78) when it
\* was awaited there, to the host when scheduled launched it.
GenReturn(tk) ==
  IF tk.kind = "scheduled"
  THEN [tk EXCEPT !.pc = "done", !.outcome = "returned"]
  ELSE [tk EXCEPT !.pc = "latest_reget"]

\* EnterGenerate without the test of the bindings
EnterGenerate_NoBindingCheck(tk) ==
  [tk EXCEPT !.generated = @ + 1, !.now = now, !.pc = "gen_get",
             !.sawAtEntry = Has(ArticleKey(ISODate(now)))]

\* generateDailyArticle up to its first await (lines 312-321)
EnterGenerate(tk) ==
  LET g == [tk EXCEPT !.generated = @ + 1]
  IN  IF ~g.ARTICLES \/ ~g.AI
      THEN GenReturn(g)
      ELSE [g EXCEPT !.now = now, !.pc = "gen_get",
                     !.sawAtEntry = Has(ArticleKey(ISODate(now)))]

\* renderArticleByKey up to its first await (lines 106-113)
EnterRenderByKey(tk, key) ==
  IF ~tk.ARTICLES THEN Respond(tk, 500)
  ELSE [tk EXCEPT !.key = key, !.pc = "render_get"]

\* getRecentArticles up to its first await (lines 380-385); env.ARTICLES is
\* set wherever the code calls it
EnterRecent(tk, limit) == [tk EXCEPT !.limit = limit, !.pc = "recent_list"]

\* the keys of a set of article keys in the order list() returns them
RECURSIVE KeysInOrder(_)
KeysInOrder(S) ==
  IF S = {} THEN <<>>
  ELSE LET k == CHOOSE x \in S : \A y \in S : ~DateLess(kv[y].json.date, kv[x].json.date)
       IN  <<k>> \o KeysInOrder(S \ {k})

\* items.sort((a, b) => (a.date < b.date ? 1 : -1))
\* SortNewestFirst without the sort: the items in the order of the listing
SortNewestFirst_Unsorted(items) == items

RECURSIVE SortNewestFirst(_)
SortNewestFirst(items) ==
  IF items = <<>> THEN <<>>
  ELSE LET i == CHOOSE x \in 1..Len(items) :
                  \A y \in 1..Len(items) : ~DateLess(items[x].date, items[y].date)
       IN  <<items[i]>> \o
           SortNewestFirst([j \in 1..(Len(items) - 1) |->
                              IF j < i THEN items[j] ELSE items[j + 1]])

Slice(s, n) == SubSeq(s, 1, IF Len(s) < n THEN Len(s) ELSE n)

RECURSIVE FilterOtherDates(_, _)
\* recent.filter((item) => item.date !== stored.date)
FilterOtherDates(items, date) ==
  IF items = <<>> THEN <<>>
  ELSE IF Head(items).date # date
       THEN <<Head(items)>> \o FilterOtherDates(Tail(items), date)
       ELSE FilterOtherDates(Tail(items), date)

\* the end of getRecentArticles (lines 396-397) and what its caller does
\* with the list: listArchive answers it, renderArticleByKey builds the
\* recent section and answers the page, a direct call gets the list
FinishRecent(tk, items) ==
  LET recent == Slice(SortNewestFirst(items), tk.limit)
      done == [tk EXCEPT !.items = <<>>, !.listKeys = <<>>]
  IN  IF tk.kind = "call" \/ tk.path.head = "/archive"
      THEN Respond([done EXCEPT !.recent = recent], 200)
      ELSE Respond([done EXCEPT
                      !.recent = Slice(FilterOtherDates(recent, tk.stored.date), 5)], 200)

SetTask(t, tk) == tasks' = [tasks EXCEPT ![t] = tk]

\* The host numbers the invocations in the order they arrive.
Arrives(t) == tasks[t].pc = "start" /\ \A u \in Tasks : u < t => tasks[u].pc # "start"

\* ----------------------------------------------------------------- actions
\* scheduled with `await generateDailyArticle(env)` for ctx.waitUntil(...):
\* the handler is not back before the generation is over
Scheduled_Awaits(t) ==
  /\ Arrives(t)
  /\ \E articles \in BOOLEAN, ai \in BOOLEAN :
       SetTask(t, EnterGenerate([tasks[t] EXCEPT !.kind = "scheduled", !.outcome = "running",
                                                 !.ARTICLES = articles, !.AI = ai]))
  /\ UNCHANGED <<now, kv, aiCalls, puts, lastCreated, interleaved>>

\* scheduled (lines 53-55): ctx.waitUntil(generateDailyArticle(env)); the
\* handler returns, the host keeps the task of the promise alive
Scheduled(t) ==
  /\ Arrives(t)
  /\ \E articles \in BOOLEAN, ai \in BOOLEAN :
       SetTask(t, EnterGenerate([tasks[t] EXCEPT !.kind = "scheduled", !.outcome = "running",
                                                 !.handlerReturned = TRUE,
                                                 !.ARTICLES = articles, !.AI = ai]))
  /\ UNCHANGED <<now, kv, aiCalls, puts, lastCreated, interleaved>>

\* listArchive up to its first await (lines 292-305)
listArchive(tk) ==
  IF ~tk.ARTICLES THEN Respond(tk, 500) ELSE EnterRecent(tk, 50)

\* renderArticleByDate that starts a generation instead of the read
renderArticleByDate_Generates(tk, date) ==
  IF ~tk.ARTICLES THEN Respond(tk, 500)
  ELSE EnterGenerate([tk EXCEPT !.key = ArticleKey(date)])

\* renderArticleByDate up to its first await (lines 91-99)
renderArticleByDate(tk, date) ==
  IF ~tk.ARTICLES THEN Respond(tk, 500)
  ELSE [tk EXCEPT !.key = ArticleKey(date), !.pc = "bydate_get"]

\* renderLatestArticle without the test of env.ARTICLES
renderLatestArticle_NoStoreCheck(tk) == [tk EXCEPT !.pc = "latest_get"]

\* renderLatestArticle up to its first await (lines 66-73)
renderLatestArticle(tk) ==
  IF ~tk.ARTICLES THEN Respond(tk, 500)
  ELSE [tk EXCEPT !.pc = "latest_get"]

\* fetch (lines 33-48)
Fetch(t) ==
  /\ Arrives(t)
  /\ \E path \in Paths, articles \in BOOLEAN, ai \in BOOLEAN :
       LET tk == [tasks[t] EXCEPT !.kind = "fetch", !.outcome = "running", !.path = path,
                                  !.ARTICLES = articles, !.AI = ai]
       IN  SetTask(t,
             IF path = Path("/archive", "") THEN listArchive(tk)
             ELSE IF path.head = "/article/" THEN renderArticleByDate(tk, path.tail)
             ELSE renderLatestArticle(tk))
  /\ UNCHANGED <<now, kv, aiCalls, puts, lastCreated, interleaved>>

\* LatestGet calling generateDailyArticle whether or not env.AI is set
LatestGet_AlwaysGenerate(t) ==
  /\ Running(tasks[t]) /\ tasks[t].pc = "latest_get"
  /\ LET latestKey == KvGet(LATEST)
         tk == [tasks[t] EXCEPT !.latestKey = latestKey, !.kvReads = @ + 1,
                                !.latestReads = @ + 1]
     IN  SetTask(t, IF latestKey = "" THEN EnterGenerate(tk)
                    ELSE EnterRenderByKey(tk, latestKey))
  /\ UNCHANGED <<now, kv, aiCalls, puts, lastCreated, interleaved>>

\* renderLatestArticle, lines 73-88: the first read of latest-key
LatestGet(t) ==
  /\ Running(tasks[t]) /\ tasks[t].pc = "latest_get"
  /\ LET latestKey == KvGet(LATEST)
         tk == [tasks[t] EXCEPT !.latestKey = latestKey, !.kvReads = @ + 1,
                                !.latestReads = @ + 1]
     IN  SetTask(t,
           IF latestKey = ""
           THEN IF tk.AI THEN EnterGenerate(tk) ELSE Respond(tk, 503)
           ELSE EnterRenderByKey(tk, latestKey))
  /\ UNCHANGED <<now, kv, aiCalls, puts, lastCreated, interleaved>>

\* LatestReget without the second read: the value of the first read is used
LatestReget_NoReread(t) ==
  /\ Running(tasks[t]) /\ tasks[t].pc = "latest_reget"
  /\ SetTask(t, IF tasks[t].latestKey = "" THEN Respond(tasks[t], 503)
                ELSE EnterRenderByKey(tasks[t], tasks[t].latestKey))
  /\ UNCHANGED <<now, kv, aiCalls, puts, lastCreated, interleaved>>

\* renderLatestArticle, lines 78-88: the read after generateDailyArticle
LatestReget(t) ==
  /\ Running(tasks[t]) /\ tasks[t].pc = "latest_reget"
  /\ LET latestKey == KvGet(LATEST)
         tk == [tasks[t] EXCEPT !.latestKey = latestKey, !.kvReads = @ + 1,
                                !.latestReads = @ + 1]
     IN  SetTask(t,
           IF latestKey = "" THEN Respond(tk, 503) ELSE EnterRenderByKey(tk, latestKey))
  /\ UNCHANGED <<now, kv, aiCalls, puts, lastCreated, interleaved>>

\* ByDateGet without the 404 of a missing record
ByDateGet_NoCheck(t) ==
  /\ Running(tasks[t]) /\ tasks[t].pc = "bydate_get"
  /\ SetTask(t, EnterRenderByKey([tasks[t] EXCEPT !.kvReads = @ + 1], tasks[t].key))
  /\ UNCHANGED <<now, kv, aiCalls, puts, lastCreated, interleaved>>

\* renderArticleByDate, lines 99-103
ByDateGet(t) ==
  /\ Running(tasks[t]) /\ tasks[t].pc = "bydate_get"
  /\ LET tk == [tasks[t] EXCEPT !.kvReads = @ + 1]
     IN  SetTask(t, IF ~Has(tk.key) THEN Respond(tk, 404) ELSE EnterRenderByKey(tk, tk.key))
  /\ UNCHANGED <<now, kv, aiCalls, puts, lastCreated, interleaved>>

\* renderArticleByKey, lines 113-120
RenderGet(t) ==
  /\ Running(tasks[t]) /\ tasks[t].pc = "render_get"
  /\ LET tk == [tasks[t] EXCEPT !.kvReads = @ + 1]
     IN  SetTask(t,
           IF ~Has(tk.key) THEN Respond(tk, 500)
           ELSE LET stored == JSONparse(kv[tk.key])
                IN  EnterRecent([tk EXCEPT !.stored = stored,
                                           !.bodyHtml = removeTitleFromBody(stored.bodyHtml,
                                                                            stored.title)], 5))
  /\ UNCHANGED <<now, kv, aiCalls, puts, lastCreated, interleaved>>

\* getRecentArticles, line 385: list({ prefix: "article:" })
RecentList(t) ==
  /\ Running(tasks[t]) /\ tasks[t].pc = "recent_list"
  /\ LET keys == KeysInOrder(StoredKeys)
         tk == [tasks[t] EXCEPT !.kvReads = @ + 1, !.listKeys = keys, !.items = <<>>]
     IN  SetTask(t, IF keys = <<>> THEN FinishRecent(tk, <<>>)
                    ELSE [tk EXCEPT !.pc = "recent_get"])
  /\ UNCHANGED <<now, kv, aiCalls, puts, lastCreated, interleaved>>

\* getRecentArticles, lines 388-393: one turn of the loop
RecentGet(t) ==
  /\ Running(tasks[t]) /\ tasks[t].pc = "recent_get"
  /\ LET key == Head(tasks[t].listKeys)
         items == IF Has(key)
                  THEN LET stored == JSONparse(kv[key])
                       IN  Append(tasks[t].items,
                                  [date |-> stored.date, title |-> stored.title,
                                   topic |-> stored.topic])
                  ELSE tasks[t].items
         tk == [tasks[t] EXCEPT !.kvReads = @ + 1, !.listKeys = Tail(@), !.items = items]
     IN  SetTask(t, IF tk.listKeys = <<>> THEN FinishRecent(tk, items) ELSE tk)
  /\ UNCHANGED <<now, kv, aiCalls, puts, lastCreated, interleaved>>

\* GenGet without the test of `existing`: generation goes on over a record
GenGet_NoCheck(t) ==
  /\ Running(tasks[t]) /\ tasks[t].pc = "gen_get"
  /\ SetTask(t, [tasks[t] EXCEPT !.kvReads = @ + 1, !.pc = "gen_run"])
  /\ UNCHANGED <<now, kv, aiCalls, puts, lastCreated, interleaved>>

\* generateDailyArticle, lines 321-326: the existence check
GenGet(t) ==
  /\ Running(tasks[t]) /\ tasks[t].pc = "gen_get"
  /\ LET existing == Has(GenKey(tasks[t]))
         tk == [tasks[t] EXCEPT !.kvReads = @ + 1]
     IN  SetTask(t, IF existing THEN GenReturn(tk) ELSE [tk EXCEPT !.pc = "gen_run"])
  /\ UNCHANGED <<now, kv, aiCalls, puts, lastCreated, interleaved>>

\* GenRun reading the clock again after the model's answer, where the code
\* uses the `now` of line 317
GenRun_ClockAgain(t) ==
  /\ Running(tasks[t]) /\ tasks[t].pc = "gen_run"
  /\ \E raw \in Responses :
       SetTask(t, [tasks[t] EXCEPT !.article = BuildArticle(now, raw), !.raw = raw,
                                   !.aiRuns = @ + 1, !.pc = "gen_put"])
  /\ aiCalls' = [aiCalls EXCEPT ![GenKey(tasks[t])] = @ + 1]
  /\ UNCHANGED <<now, kv, puts, lastCreated, interleaved>>

\* generateDailyArticle, lines 355-374: the model's answer and the record
GenRun(t) ==
  /\ Running(tasks[t]) /\ tasks[t].pc = "gen_run"
  /\ \E raw \in Responses :
       SetTask(t, [tasks[t] EXCEPT !.article = BuildArticle(tasks[t].now, raw), !.raw = raw,
                                   !.aiRuns = @ + 1, !.pc = "gen_put"])
  /\ aiCalls' = [aiCalls EXCEPT ![GenKey(tasks[t])] = @ + 1]
  /\ UNCHANGED <<now, kv, puts, lastCreated, interleaved>>

\* the two puts in the other order: latest-key is put where line 376 puts
\* the record
GenPut_PointerFirst(t) ==
  /\ Running(tasks[t]) /\ tasks[t].pc = "gen_put"
  /\ kv' = KvPut(LATEST, tasks[t].article.key)
  /\ SetTask(t, [tasks[t] EXCEPT !.kvWrites = @ + 1, !.pc = "gen_put_latest"])
  /\ puts' = [puts EXCEPT ![LATEST] = @ + 1]
  /\ UNCHANGED <<now, aiCalls, lastCreated, interleaved>>

\* generateDailyArticle, line 376
GenPut(t) ==
  /\ Running(tasks[t]) /\ tasks[t].pc = "gen_put"
  /\ kv' = KvPut(tasks[t].article.key, JSONstringify(tasks[t].article))
  /\ SetTask(t, [tasks[t] EXCEPT !.kvWrites = @ + 1, !.pc = "gen_put_latest"])
  /\ puts' = [puts EXCEPT ![tasks[t].article.key] = @ + 1]
  /\ lastCreated' = tasks[t].article.key
  /\ interleaved' = (interleaved \/
                       \E u \in Tasks \ {t} : Running(tasks[u]) /\ tasks[u].pc = "gen_put_latest")
  /\ UNCHANGED <<now, aiCalls>>

\* GenPutLatest without the put of the pointer
GenPutLatest_NoPointer(t) ==
  /\ Running(tasks[t]) /\ tasks[t].pc = "gen_put_latest"
  /\ SetTask(t, GenReturn(tasks[t]))
  /\ UNCHANGED <<now, kv, aiCalls, puts, lastCreated, interleaved>>

\* generateDailyArticle, lines 377-378
GenPutLatest(t) ==
  /\ Running(tasks[t]) /\ tasks[t].pc = "gen_put_latest"
  /\ kv' = KvPut(LATEST, tasks[t].article.key)
  /\ SetTask(t, GenReturn([tasks[t] EXCEPT !.kvWrites = @ + 1]))
  /\ puts' = [puts EXCEPT ![LATEST] = @ + 1]
  /\ UNCHANGED <<now, aiCalls, lastCreated, interleaved>>

\* A call of the store or of the model fails, or the host ends the task:
\* nothing catches it, the task ends where it awaits.
Throw(t) ==
  /\ Running(tasks[t])
  /\ SetTask(t, [tasks[t] EXCEPT !.outcome = "threw"])
  /\ UNCHANGED <<now, kv, aiCalls, puts, lastCreated, interleaved>>

\* time passes
Tick ==
  /\ DayIndex(now + MsPerDay \div TicksPerDay) <= MaxDay
  /\ now' = now + MsPerDay \div TicksPerDay
  /\ UNCHANGED <<kv, tasks, aiCalls, puts, lastCreated, interleaved>>

Next ==
  \/ Tick
  \/ \E t \in Tasks :
       \/ Scheduled(t) \/ Fetch(t)
       \/ LatestGet(t) \/ LatestReget(t) \/ ByDateGet(t) \/ RenderGet(t)
       \/ RecentList(t) \/ RecentGet(t)
       \/ GenGet(t) \/ GenRun(t) \/ GenPut(t) \/ GenPutLatest(t)
       \/ Throw(t)

Spec == Init /\ [][Next]_vars

\* ------------------------------------------------- the read paths alone
\* The limits getRecentArticles is called with: the small ones, 5 (line 120)
\* and 50 (line 305).
Limits == 0..(MaxStored + 1) \cup {5, 50}

DateOfDay(d) == ISODate(d * MsPerDay)

\* A store as completed generations of the days S leave it: one record per
\* day, latest-key on the newest.
StoreOf(S, raw) ==
  LET newest == CHOOSE d \in S : \A e \in S : e <= d
  IN  [k \in {ArticleKey(DateOfDay(d)) : d \in S} \cup {LATEST} |->
         IF k = LATEST THEN ArticleKey(DateOfDay(newest))
         ELSE JSONstringify(BuildArticle(
                (CHOOSE d \in S : ArticleKey(DateOfDay(d)) = k) * MsPerDay, raw))]

InitRead ==
  /\ now = 0
  /\ \E S \in SUBSET StoredDays, raw \in Responses :
       kv = IF S = {} THEN [k \in {} |-> ""] ELSE StoreOf(S, raw)
  /\ tasks = [t \in Tasks |-> IdleTask]
  /\ aiCalls = [k \in ArticleKeys |-> 0]
  /\ puts = [k \in ArticleKeys \cup {LATEST} |-> 0]
  /\ lastCreated = ""
  /\ interleaved = FALSE

\* getRecentArticles(env, limit) called for itself (lines 380-385)
GetRecent(t) ==
  /\ Arrives(t)
  /\ \E limit \in Limits, articles \in BOOLEAN :
       LET tk == [tasks[t] EXCEPT !.kind = "call", !.outcome = "running",
                                  !.ARTICLES = articles, !.limit = limit]
       IN  SetTask(t, IF ~articles THEN Respond(tk, 200) ELSE EnterRecent(tk, limit))
  /\ UNCHANGED <<now, kv, aiCalls, puts, lastCreated, interleaved>>

\* one request, or one call of getRecentArticles, on a store at rest
NextRead ==
  \/ GetRecent(1) \/ Fetch(1)
  \/ LatestGet(1) \/ ByDateGet(1) \/ RenderGet(1)
  \/ RecentList(1) \/ RecentGet(1)

SpecRead == InitRead /\ [][NextRead]_vars

\* ------------------------------------------------ the topic of the day
TopicKeys == {ArticleKey(DateOfDay(d)) : d \in 0..MaxTopicDay}

InitTopic ==
  /\ now = 0
  /\ kv = [k \in {} |-> ""]
  /\ tasks = [t \in Tasks |-> IdleTask]
  /\ aiCalls = [k \in TopicKeys |-> 0]
  /\ puts = [k \in TopicKeys \cup {LATEST} |-> 0]
  /\ lastCreated = ""
  /\ interleaved = FALSE

\* time passes, through several instants of each day
TickTopic ==
  /\ DayIndex(now + MsPerDay \div TopicTicksPerDay) <= MaxTopicDay
  /\ now' = now + MsPerDay \div TopicTicksPerDay
  /\ UNCHANGED <<kv, tasks, aiCalls, puts, lastCreated, interleaved>>

\* one scheduled run, at any instant, up to the record it builds (line 326
\* picks the topic from the `now` of line 317)
NextTopic ==
  \/ TickTopic
  \/ Scheduled(1) \/ GenGet(1) \/ GenRun(1)

SpecTopic == InitTopic /\ [][NextTopic]_vars

\* ------------------------------------------- the days after a first article
HealKeys == {ArticleKey(DateOfDay(d)) : d \in 0..MaxHealDay}
FirstKey == ArticleKey(DateOfDay(0))

\* The morning of day 1: the store is empty still, or a generation of day 0
\* has completed and left its record and the pointer to it.
InitHeal ==
  /\ now = MsPerDay
  /\ tasks = [t \in Tasks |-> IdleTask]
  /\ interleaved = FALSE
  /\ \/ /\ kv = [k \in {} |-> ""]
        /\ aiCalls = [k \in HealKeys |-> 0]
        /\ puts = [k \in HealKeys \cup {LATEST} |-> 0]
        /\ lastCreated = ""
     \/ /\ kv = StoreOf({0}, << Line("h2", "Alpha"), Line("p", "one") >>)
        /\ aiCalls = [k \in HealKeys |-> IF k = FirstKey THEN 1 ELSE 0]
        /\ puts = [k \in HealKeys \cup {LATEST} |-> IF k \in {FirstKey, LATEST} THEN 1 ELSE 0]
        /\ lastCreated = FirstKey

TickHeal ==
  /\ DayIndex(now + MsPerDay \div TicksPerDay) <= MaxHealDay
  /\ now' = now + MsPerDay \div TicksPerDay
  /\ UNCHANGED <<kv, tasks, aiCalls, puts, lastCreated, interleaved>>

NextHeal ==
  \/ TickHeal
  \/ \E t \in Tasks :
       \/ Scheduled(t) \/ Fetch(t)
       \/ LatestGet(t) \/ LatestReget(t) \/ ByDateGet(t) \/ RenderGet(t)
       \/ RecentList(t) \/ RecentGet(t)
       \/ GenGet(t) \/ GenRun(t) \/ GenPut(t) \/ GenPutLatest(t)
       \/ Throw(t)

SpecHeal == InitHeal /\ [][NextHeal]_vars

\* --------------------------------------------------- pages of any article
\* the lines an answer of the model may hold: the title as a heading, as a
\* plain line and inside a paragraph, a paragraph of text, an empty line
AnswerLines ==
  { Line("h2", "Title"), Line("", "Title"), Line("p", "Title"), Line("p", "text"), BlankLine }

Texts == UNION { [1..n -> AnswerLines] : n \in 1..MaxLines }

\* the store after the generation of day 0, for any answer of the model
InitRemove ==
  /\ now = 0
  /\ \E raw \in Texts : kv = StoreOf({0}, raw)
  /\ tasks = [t \in Tasks |-> IdleTask]
  /\ aiCalls = [k \in ArticleKeys |-> 0]
  /\ puts = [k \in ArticleKeys \cup {LATEST} |-> 0]
  /\ lastCreated = ""
  /\ interleaved = FALSE

\* one request at a time reads the store
NextRemove ==
  \/ Fetch(1) \/ LatestGet(1) \/ ByDateGet(1)
  \/ RenderGet(1) \/ RecentList(1) \/ RecentGet(1)

SpecRemove == InitRemove /\ [][NextRemove]_vars

\* --------------------------------------------------- the cron trigger alone
\* the steps of generateDailyArticle that end an await of task t
Resume(t) == GenGet(t) \/ GenRun(t) \/ GenPut(t) \/ GenPutLatest(t)

NextLive ==
  \/ Tick
  \/ \E t \in Tasks : Scheduled(t) \/ Resume(t)

\* The store and the model answer every call and the host runs every task
\* whose await has ended (ctx.waitUntil keeps the scheduled one alive).
SpecLive == Init /\ [][NextLive]_vars /\ \A t \in Tasks : WF_vars(Resume(t))

TypeOK ==
  /\ now \in Nat
  /\ DOMAIN kv \subseteq ArticleKeys \cup {LATEST}
  /\ \A t \in Tasks : tasks[t].status \in {0, 200, 404, 500, 503}

\* -------------------------------------------------------------- properties
Generating(tk) == tk.generated > 0 /\ tk.ARTICLES /\ tk.AI
BetweenPuts(tk) == tk.pc = "gen_put_latest"
IsLatestRoute(tk) == tk.kind = "fetch" /\ tk.path.head = "/"
IsByDateRoute(tk) == tk.kind = "fetch" /\ tk.path.head = "/article/"

\* C1: an invocation of generateDailyArticle that starts on day D when the
\* store already holds article:D calls the model never, puts nothing, and
\* none of its steps changes an entry of the store.
C1_Idempotent ==
  [][\A t \in Tasks :
       (tasks'[t] # tasks[t] /\ Generating(tasks'[t]) /\ tasks'[t].sawAtEntry)
         => /\ kv' = kv
            /\ aiCalls' = aiCalls
            /\ puts' = puts
            /\ tasks'[t].aiRuns = 0
            /\ tasks'[t].kvWrites = 0]_vars

\* C1 witness: a scheduled generation wrote both entries and returned, and
\* a later scheduled invocation of the same day found the record and returned.
C1_Witness ==
  \E t, u \in Tasks :
    /\ t # u
    /\ tasks[u].kind = "scheduled" /\ tasks[u].outcome = "returned" /\ tasks[u].kvWrites = 2
    /\ tasks[t].kind = "scheduled" /\ tasks[t].outcome = "returned"
    /\ Generating(tasks[t]) /\ tasks[t].sawAtEntry
    /\ GenKey(tasks[t]) = GenKey(tasks[u])

\* C2 (as stated): for every day the model is called at most once and
\* article:D is put at most once, whatever the interleaving.
C2_AtMostOnePerDay ==
  \A k \in ArticleKeys : aiCalls[k] <= 1 /\ puts[k] <= 1

\* the invocations for key k that began before a record was stored under k
EarlyStarters(k) ==
  {t \in Tasks : Generating(tasks[t]) /\ GenKey(tasks[t]) = k /\ ~tasks[t].sawAtEntry}

\* C2 (amended): the store holds at most one record per date, and the model
\* calls and the puts of article:D are bounded by the number of invocations
\* that began before a record was stored under article:D; an invocation
\* that begins after it makes none.
C2_AtMostOnePerStarter ==
  \A k \in ArticleKeys :
    /\ puts[k] <= aiCalls[k]
    /\ aiCalls[k] <= Cardinality(EarlyStarters(k))
    /\ Has(k) => kv[k].json.key = k /\ kv[k].json.date \in Dates

\* C2 witness: two invocations of one day raced past the existence check
\* and each called the model and put its record.
C2_Witness ==
  \E k \in ArticleKeys : aiCalls[k] = 2 /\ puts[k] = 2 /\ Has(k)

\* C3 (as stated): whenever the store holds an article record, latest-key is
\* set and names the most recently created article.
C3_LatestPointer ==
  AnyArticle => Has(LATEST) /\ kv[LATEST] = lastCreated

\* C3 (amended): whenever the store holds an article record and no
\* generation stands between its two puts (in flight or failed there),
\* latest-key is set and names a stored record, and it names the most
\* recently created one unless the put pairs of two generations interleaved.
C3_LatestPointerAtRest ==
  (AnyArticle /\ \A t \in Tasks : ~BetweenPuts(tasks[t]))
    => /\ Has(LATEST)
       /\ kv[LATEST] \in StoredKeys
       /\ ~interleaved => kv[LATEST] = lastCreated

\* C3 witness: a second generation, of a later day, has completed after a
\* first one and the pointer names its record.
C3_Witness ==
  /\ Cardinality(StoredKeys) = 2
  /\ \A t \in Tasks : tasks[t].outcome = "returned" /\ tasks[t].kvWrites = 2
  /\ ~interleaved
  /\ Has(LATEST) /\ kv[LATEST] = lastCreated

\* C4 (as stated): the value stored under an article key never changes.
C4_Immutable ==
  [][\A k \in ArticleKeys : Has(k) => (k \in DOMAIN kv' /\ kv'[k] = kv[k])]_vars

\* C4 (amended): no step deletes an article record; a record under
\* article:D changes only by the put of a generateDailyArticle invocation
\* for D that began before a record was stored under article:D, and the new
\* record has the same key, date and topic.
C4_OverwriteOnlyByRace ==
  [][\A k \in ArticleKeys :
       Has(k) =>
         /\ k \in DOMAIN kv'
         /\ kv'[k] # kv[k] =>
              /\ \E t \in EarlyStarters(k) :
                   tasks[t].pc = "gen_put" /\ tasks'[t].pc = "gen_put_latest"
              /\ kv'[k].json.key = kv[k].json.key
              /\ kv'[k].json.date = kv[k].json.date
              /\ kv'[k].json.topic = kv[k].json.topic]_vars

\* C4 witness: a record was put over another record of the same day.
C4_Witness ==
  \E k \in ArticleKeys, t \in Tasks :
    /\ puts[k] = 2
    /\ BetweenPuts(tasks[t]) /\ tasks[t].article.key = k
    /\ kv[k] = JSONstringify(tasks[t].article)

\* C5: on GET / (or any path that is neither /archive nor under /article/)
\* with the store bound: latest-key is read at most twice, the second time
\* only after a generation attempt; generation is attempted at most once and
\* only by the step that read latest-key absent; without the model binding
\* no generation is attempted, no step of the request changes the store and
\* an absent latest-key is answered 503; a last read that finds latest-key
\* absent is answered 503.
C5_LatestRoute ==
  /\ [](\A t \in Tasks :
          LET tk == tasks[t]
          IN  (IsLatestRoute(tk) /\ tk.ARTICLES) =>
                /\ tk.latestReads <= 2 /\ tk.generated <= 1
                /\ tk.latestReads = 2 => tk.generated = 1
                /\ ~tk.AI => tk.generated = 0 /\ tk.kvWrites = 0 /\ tk.aiRuns = 0
                /\ (tk.outcome = "returned" /\ tk.latestKey = "") => tk.status = 503
                /\ (tk.outcome = "returned" /\ tk.latestKey = "" /\ ~tk.AI)
                     => tk.latestReads = 1)
  /\ [][\A t \in Tasks :
          (IsLatestRoute(tasks'[t]) /\ tasks'[t].ARTICLES /\ tasks'[t] # tasks[t]) =>
            /\ tasks'[t].generated > tasks[t].generated
                 => (~Has(LATEST) /\ tasks[t].pc = "latest_get")
            /\ ~tasks'[t].AI => kv' = kv]_vars

\* C5 witness: a GET / without the model binding was answered 503 while the
\* store held an article record and no pointer.
C5_Witness ==
  \E t \in Tasks :
    /\ IsLatestRoute(tasks[t]) /\ tasks[t].ARTICLES /\ ~tasks[t].AI
    /\ tasks[t].status = 503 /\ tasks[t].latestReads = 1
    /\ AnyArticle

OnlyWriter(t) == \A u \in Tasks \ {t} : tasks[u].kvWrites = 0

C7_503OnlyWithoutArticle ==
  \A t \in Tasks :
    LET tk == tasks[t]
    IN  (IsLatestRoute(tk) /\ tk.ARTICLES /\ tk.AI /\ tk.outcome = "returned" /\ tk.status = 503)
          => ~tk.articleAtResponse

\* C8: on GET /article/<date> with the store bound, the existence check
\* answers 404 exactly when the store holds no record under article:<date>
\* at that moment and otherwise goes on to render; a request that returns is
\* answered 404 or 200, never 500; a 200 renders the record of that key and
\* date; a date never generated is answered 404.
C8_ByDate ==
  /\ [](\A t \in Tasks :
          LET tk == tasks[t]
          IN  (IsByDateRoute(tk) /\ tk.ARTICLES /\ tk.outcome = "returned") =>
                /\ tk.status \in {200, 404}
                /\ tk.status = 200 =>
                     /\ Has(tk.key)
                     /\ tk.stored.key = tk.key
                     /\ tk.stored.date = tk.path.tail
                /\ tk.path.tail \notin Dates => tk.status = 404)
  /\ [][\A t \in Tasks :
          (tasks[t].pc = "bydate_get" /\ tasks'[t].pc # "bydate_get") =>
            /\ tasks'[t].status = 404 <=> ~Has(tasks[t].key)
            /\ tasks'[t].pc = "render_get" <=> Has(tasks[t].key)]_vars

\* C8 witness: a GET /article/<date> for a stored date was answered 200.
C8_Witness ==
  \E t \in Tasks :
    /\ IsByDateRoute(tasks[t]) /\ tasks[t].ARTICLES
    /\ tasks[t].status = 200 /\ tasks[t].stored.date = tasks[t].path.tail

\* C9: a fetch without the store binding is answered 500 on every route,
\* with or without the model binding, and reads nothing, writes nothing,
\* attempts no generation and calls no model.
C9_NoStore500 ==
  \A t \in Tasks :
    LET tk == tasks[t]
    IN  (tk.kind = "fetch" /\ ~tk.ARTICLES)
          => /\ tk.outcome = "returned" /\ tk.status = 500
             /\ tk.generated = 0 /\ tk.aiRuns = 0
             /\ tk.kvReads = 0 /\ tk.kvWrites = 0

\* C9 witness: GET / without the store binding and with the model binding
\* was answered 500 while the store held an article.
C9_Witness ==
  \E t \in Tasks :
    /\ tasks[t].kind = "fetch" /\ ~tasks[t].ARTICLES /\ tasks[t].AI
    /\ tasks[t].path = Path("/", "") /\ tasks[t].status = 500
    /\ AnyArticle

\* C10: generateDailyArticle without the model binding or without the store
\* binding returns at once: no read, no write, no model call, no record.
C10_SilentNoOp ==
  \A t \in Tasks :
    LET tk == tasks[t]
    IN  (tk.generated > 0 /\ (~tk.ARTICLES \/ ~tk.AI))
          => /\ tk.kind = "scheduled"
             /\ tk.outcome = "returned" /\ tk.pc = "done"
             /\ tk.kvReads = 0 /\ tk.kvWrites = 0 /\ tk.aiRuns = 0
             /\ tk.article = NoArticle

\* C10 witness: a scheduled run with the store bound and no model binding
\* has returned, on a day for which no record is stored.
C10_Witness ==
  \E t \in Tasks :
    /\ tasks[t].kind = "scheduled" /\ tasks[t].ARTICLES /\ ~tasks[t].AI
    /\ tasks[t].generated = 1 /\ tasks[t].outcome = "returned"
    /\ ~Has(ArticleKey(ISODate(now)))

\* the dates of a sequence of items
ItemDates(items) == {items[i].date : i \in 1..Len(items)}
\* items are in strictly descending order of date
NewestFirst(items) ==
  \A i, j \in 1..Len(items) : i < j => DateLess(items[j].date, items[i].date)
\* every item is the date, title and topic of a stored record
FromStore(items) ==
  \A i \in 1..Len(items) :
    \E k \in StoredKeys :
      items[i] = [date |-> kv[k].json.date, title |-> kv[k].json.title,
                  topic |-> kv[k].json.topic]
\* no stored article outside S is newer than one in S
NewestOf(S, All) == \A a \in All \ S : \A b \in S : DateLess(a, b)
StoredDates == {kv[k].json.date : k \in StoredKeys}
Min(a, b) == IF a < b THEN a ELSE b

\* C11: getRecentArticles(n) on any store returns min(n, number of stored
\* articles) items, so at most n, each the date, title and topic of a
\* stored record, in strictly descending order of date, and they are the
\* newest stored articles; GET /archive calls it with n = 50.
C11_RecentArticles ==
  \A t \in Tasks :
    LET tk == tasks[t]
    IN  /\ (tk.kind = "fetch" /\ tk.path.head = "/archive" /\ tk.ARTICLES) => tk.limit = 50
        /\ ((tk.kind = "call" \/ tk.path.head = "/archive") /\ tk.ARTICLES
              /\ tk.outcome = "returned")
             => /\ tk.status = 200
                /\ Len(tk.recent) <= tk.limit
                /\ Len(tk.recent) = Min(tk.limit, Cardinality(StoredKeys))
                /\ FromStore(tk.recent)
                /\ NewestFirst(tk.recent)
                /\ NewestOf(ItemDates(tk.recent), StoredDates)

\* C11 witness: a call with a limit below the number of stored articles
\* returned exactly that many items, and more than one.
C11_Witness ==
  \E t \in Tasks :
    /\ tasks[t].kind = "call" /\ tasks[t].outcome = "returned"
    /\ Len(tasks[t].recent) = tasks[t].limit
    /\ tasks[t].limit > 1 /\ tasks[t].limit < Cardinality(StoredKeys)

StartOfDay(ms) == ms - (ms % MsPerDay)
TopicPosition(topic) == CHOOSE i \in 1..Len(TOPIC_BUCKETS) : TOPIC_BUCKETS[i] = topic
ListedTopics == {TOPIC_BUCKETS[i] : i \in 1..Len(TOPIC_BUCKETS)}

\* C12: the topic picked at an instant is one of the 8 listed topics, the
\* one at index (day of the instant) mod 8; every instant of the same UTC
\* day gives the same topic and the first instant of the next day another;
\* the topic of the next day is the next of the list, cyclically, so 8
\* consecutive days give each topic once; a record built by a run that read
\* the clock on this day carries this topic.
C12_TopicOfDay ==
  LET topic == pickTopicForToday(now)
      start == StartOfDay(now)
  IN  /\ Len(TOPIC_BUCKETS) = 8 /\ Cardinality(ListedTopics) = 8
      /\ topic \in ListedTopics
      /\ TopicPosition(topic) = ((start \div MsPerDay) % 8) + 1
      /\ \A k \in 0..(TopicTicksPerDay - 1) :
           pickTopicForToday(start + k * (MsPerDay \div TopicTicksPerDay)) = topic
      /\ pickTopicForToday(start) = topic
      /\ pickTopicForToday(start + MsPerDay - 1) = topic
      /\ pickTopicForToday(start + MsPerDay) # topic
      /\ TopicPosition(pickTopicForToday(now + MsPerDay)) = (TopicPosition(topic) % 8) + 1
      /\ Cardinality({pickTopicForToday(now + k * MsPerDay) : k \in 0..7}) = 8
      /\ \A t \in Tasks :
           (tasks[t].article # NoArticle /\ StartOfDay(tasks[t].now) = start)
             => tasks[t].article.topic = topic

\* C12 witness: on the ninth day the list has come round to its first
\* topic, and a run that read the clock earlier that day built its record
\* with it.
C12_Witness ==
  \E t \in Tasks :
    /\ tasks[t].article # NoArticle
    /\ tasks[t].now < now /\ StartOfDay(tasks[t].now) = StartOfDay(now)
    /\ now \div MsPerDay = 8
    /\ tasks[t].article.topic = TOPIC_BUCKETS[1]

CrashedBetween(tk) == tk.outcome = "threw" /\ tk.pc = "gen_put_latest"
NoWriterBut(S) == \A w \in Tasks \ S : tasks[w].kvWrites = 0

\* C13: when a generation of day D has failed between its two puts, the
\* record article:D is stored; as long as no other task has written,
\* latest-key is what it was before (the key of the article of day 0, or
\* absent when there was none) and not article:D; and once a generation that
\* read the clock on a later day D' has returned, no third task having
\* written, it has made both puts and latest-key is article:D'.
C13_CrashAndHeal ==
  \A t \in Tasks :
    CrashedBetween(tasks[t]) =>
      /\ Has(tasks[t].article.key)
      /\ NoWriterBut({t}) =>
           /\ Has(LATEST) <=> Has(FirstKey)
           /\ Has(LATEST) => kv[LATEST] = FirstKey
           /\ KvGet(LATEST) # tasks[t].article.key
      /\ \A u \in Tasks \ {t} :
           ( /\ Generating(tasks[u]) /\ tasks[u].outcome = "returned"
             /\ DayIndex(tasks[u].now) > DayIndex(tasks[t].now)
             /\ NoWriterBut({t, u}) )
             => /\ tasks[u].kvWrites = 2
                /\ Has(GenKey(tasks[u]))
                /\ Has(LATEST) /\ kv[LATEST] = GenKey(tasks[u])

\* C13 witness: after the article of day 0, a generation of day 1 failed
\* between its puts, and a scheduled run of day 2 has completed: the three
\* records are stored and latest-key names the one of day 2.
C13_Witness ==
  \E t, u \in Tasks :
    /\ CrashedBetween(tasks[t]) /\ DayIndex(tasks[t].now) = 1
    /\ tasks[u].kind = "scheduled" /\ tasks[u].outcome = "returned"
    /\ tasks[u].kvWrites = 2 /\ DayIndex(tasks[u].now) = 2
    /\ Has(FirstKey) /\ Has(tasks[t].article.key)
    /\ kv[LATEST] = GenKey(tasks[u])

\* C14: a trigger of scheduled enters generateDailyArticle once and the
\* handler is back at once, whether or not the task it launched is over;
\* when the store and the model answer and the host runs the task, the
\* task ends: it has returned, having put nothing (skip) or made both puts.
C14_ScheduledCompletes ==
  /\ [](\A t \in Tasks :
          tasks[t].kind = "scheduled" => tasks[t].generated = 1 /\ tasks[t].handlerReturned)
  /\ \A t \in Tasks :
       (tasks[t].kind = "scheduled")
         ~> ( /\ tasks[t].pc = "done" /\ tasks[t].outcome = "returned"
              /\ tasks[t].kvWrites \in {0, 2} )

\* C14 witness: the handler of a trigger is back while the generation it
\* launched awaits its second put.
C14_Witness ==
  \E t \in Tasks :
    /\ tasks[t].kind = "scheduled" /\ tasks[t].handlerReturned
    /\ Running(tasks[t]) /\ tasks[t].pc = "gen_put_latest"

NonBlank(l) == ~IsBlank(l)
\* a text as its sequence of elements, the empty lines between them aside
ElementsOf(html) == SelectSeq(html, NonBlank)

\* the body opens with the title as an <h1>/<h2> heading or as a plain line
LeadingDuplicate(html, title) ==
  LET f == FirstNonBlank(html, 1)
  IN  f # 0 /\ html[f].tag \in {"", "h1", "h2"} /\ html[f].text = title

Rendered(tk) == tk.pc \in {"recent_list", "recent_get", "done"} /\ tk.stored # NoArticle

\* C15: removeTitleFromBody(body, title), the body seen as its elements:
\* an empty title gives the body back; a body that opens with a duplicate of
\* the title loses that element and nothing else; a body without a leading
\* duplicate comes back with all its elements.
C15_RemoveLeadingTitle ==
  \A t \in Tasks :
    Rendered(tasks[t]) =>
      LET body == tasks[t].stored.bodyHtml
          title == tasks[t].stored.title
          out == tasks[t].bodyHtml
      IN  IF title = "" THEN out = body
          ELSE IF LeadingDuplicate(body, title)
               THEN ElementsOf(out) = Tail(ElementsOf(body))
               ELSE ElementsOf(out) = ElementsOf(body)

\* a request that put an article page together: the record of the page and
\* the items of its "recent" section
PageDone(tk) ==
  /\ tk.kind = "fetch" /\ tk.path.head # "/archive"
  /\ tk.outcome = "returned" /\ tk.status = 200
OtherDates(tk) == StoredDates \ {tk.stored.date}

\* C16: the "recent" section of an article page never links the article
\* shown, links at most 5 articles, and with k stored articles other than the
\* shown one links min(k, 5) of them, the newest ones, newest first.
C16_RecentSection ==
  \A t \in Tasks :
    PageDone(tasks[t]) =>
      LET recent == tasks[t].recent
      IN  /\ tasks[t].stored.date \notin ItemDates(recent)
          /\ Len(recent) <= 5
          /\ Len(recent) = Min(Cardinality(OtherDates(tasks[t])), 5)
          /\ FromStore(recent)
          /\ NewestFirst(recent)
          /\ NewestOf(ItemDates(recent), OtherDates(tasks[t]))

\* a step that changes an entry of the store or calls the model
Effect == kv' # kv \/ aiCalls' # aiCalls \/ puts' # puts
InGenerate(tk) == tk.pc \in {"gen_get", "gen_run", "gen_put", "gen_put_latest"}

\* C17: a GET /archive or GET /article/<date> never enters
\* generateDailyArticle, never puts and never calls the model; every step
\* that changes the store or calls the model is a step of a task inside
\* generateDailyArticle with both bindings, and when that task is a request
\* it is a GET / that read latest-key absent; a GET / enters
\* generateDailyArticle only when latest-key is absent and env.AI is set.
C17_OnlyGenerateWrites ==
  /\ [](\A t \in Tasks :
          (tasks[t].kind = "fetch" /\ ~IsLatestRoute(tasks[t])) =>
            /\ tasks[t].generated = 0 /\ tasks[t].kvWrites = 0 /\ tasks[t].aiRuns = 0
            /\ ~InGenerate(tasks[t]))
  /\ [][ /\ Effect =>
              \E t \in Tasks :
                /\ tasks'[t] # tasks[t]
                /\ InGenerate(tasks[t]) /\ Generating(tasks[t])
                /\ tasks[t].kind = "fetch" =>
                     IsLatestRoute(tasks[t]) /\ tasks[t].latestKey = ""
         /\ \A t \in Tasks :
              (tasks'[t].kind = "fetch" /\ tasks'[t].generated > tasks[t].generated) =>
                /\ IsLatestRoute(tasks[t]) /\ tasks[t].pc = "latest_get"
                /\ ~Has(LATEST) /\ tasks[t].AI ]_vars

\* C17 witness: a GET / has made both puts of a generation, and a
\* GET /article/<date> has been answered with a page without any put.
C17_Witness ==
  \E t, u \in Tasks :
    /\ IsLatestRoute(tasks[t]) /\ tasks[t].kvWrites = 2
    /\ IsByDateRoute(tasks[u]) /\ tasks[u].status = 200 /\ tasks[u].kvWrites = 0

\* C18: in every state, between the two puts of a generation, after a
\* failure between them and with generations running side by side, a
\* latest-key that is set names a key under which a record is stored; so no
\* GET / with the store bound is answered 500.
C18_PointerIntegrity ==
  /\ Has(LATEST) => (kv[LATEST] \in StoredKeys /\ kv[kv[LATEST]].json.key = kv[LATEST])
  /\ \A t \in Tasks :
       (IsLatestRoute(tasks[t]) /\ tasks[t].ARTICLES) => tasks[t].status # 500

\* C18 witness: a generation failed between its two puts, latest-key is set
\* by another one, and a GET / has been answered with a page.
C18_Witness ==
  /\ Has(LATEST)
  /\ \E t, u \in Tasks :
       /\ CrashedBetween(tasks[t])
       /\ IsLatestRoute(tasks[u]) /\ tasks[u].status = 200

TopicOfDay(d) == TOPIC_BUCKETS[(d % 8) + 1]
\* the task has built its record (lines 367-374)
Built(tk) == tk.aiRuns > 0

\* C19: every record stored under article:D has date D, key article:D, the
\* topic of the list at index (day of D) mod 8 and a title that is not
\* empty; the record a generation builds has the date, key and topic of the
\* instant read when the generation began, whatever the clock says later,
\* and the title "Daily Insight - D" when the answer's first line holds no
\* text.
C19_WellFormedRecord ==
  /\ \A k \in StoredKeys :
       LET a == kv[k].json
       IN  /\ a.key = k /\ k = ArticleKey(a.date)
           /\ a.date \in Dates
           /\ a.topic = TopicOfDay(DayOf(a.date))
           /\ a.title # ""
  /\ \A t \in Tasks :
       Built(tasks[t]) =>
         LET a == tasks[t].article
             D == ISODate(tasks[t].now)
         IN  /\ a.date = D /\ a.key = ArticleKey(D)
             /\ a.topic = TopicOfDay(DayIndex(tasks[t].now))
             /\ a.title # ""
             /\ TitleOf(sanitizeGeneratedHtml(tasks[t].raw)) = ""
                  => a.title = "Daily Insight - " \o D

\* C19 witness: a generation begun on one day stored, after the day had
\* turned, a record with the default title of the day it began.
C19_Witness ==
  \E t \in Tasks :
    /\ tasks[t].kvWrites = 2
    /\ DayIndex(now) > DayIndex(tasks[t].now)
    /\ Has(tasks[t].article.key) /\ kv[tasks[t].article.key].json = tasks[t].article
    /\ tasks[t].article.title = "Daily Insight - " \o ISODate(tasks[t].now)
    /\ lastCreated = tasks[t].article.key

\* no generateDailyArticle is under way and no task has failed
Quiescent ==
  \A t \in Tasks : ~(Running(tasks[t]) /\ InGenerate(tasks[t])) /\ tasks[t].outcome # "threw"
NewestStored(k) == \A j \in StoredKeys : ~DateLess(kv[k].json.date, kv[j].json.date)

\* C20: whenever no generateDailyArticle is under way and none has failed,
\* and an article is stored, latest-key names the stored article of the
\* greatest date, however the generations of different days overlapped.
C20_PointerConverges ==
  (Quiescent /\ AnyArticle) => (Has(LATEST) /\ kv[LATEST] \in StoredKeys /\ NewestStored(kv[LATEST]))
====
